---- MODULE Spec2Model ----
(***************************************************************************)
(* THPS2 PKR archive codec: repack_pkr (directory tree -> archive) and     *)
(* extract_pkr (archive -> directory tree), modelled at byte level.        *)
(*                                                                         *)
(* Text is a sequence of character codes, a file or an archive a sequence  *)
(* of bytes 0..255.  A 32-bit unsigned value v is held as the integer      *)
(* congruent to v modulo 2^32 in -2^31 .. 2^31-1 (the model checker's      *)
(* integers are 32 bits wide), so 0xFFFFFFFE is held as -2; its four       *)
(* little-endian bytes are the same.                                       *)
(***************************************************************************)
EXTENDS Integers, Sequences, FiniteSets, TLC

(***************************************************************************)
(* Bounds of the model.                                                    *)
(***************************************************************************)
\* at most this many files in an input tree
MaxFiles == 2
\* at most this many anomalies planted in an archive handed to extract_pkr
MaxAnomalies == 2

(***************************************************************************)
(* Character codes and names used by the trees of the model.               *)
(***************************************************************************)
Slash == 47
Dot == 46
Nul == 0

AUDIO == <<97, 117, 100, 105, 111>>
LEVELS == <<108, 118>>
SUB == <<120>>
HIDDEN_DIR == <<46, 103>>
A_BIN == <<97, 46, 98, 105, 110>>
B_BIN == <<98, 46, 98, 105, 110>>
HIDDEN_FILE == <<46, 104>>

(***************************************************************************)
(* Sequence helpers.                                                       *)
(***************************************************************************)
Min(a, b) == IF a <= b THEN a ELSE b

Take(s, n) == SubSeq(s, 1, Min(n, Len(s)))

Drop(s, n) == IF n <= 0 THEN s ELSE SubSeq(s, n + 1, Len(s))

Zeros(n) == [k \in 1..n |-> Nul]

RECURSIVE Perms(_)
Perms(S) ==
    IF S = {} THEN {<<>>}
    ELSE UNION {{<<e>> \o p : p \in Perms(S \ {e})} : e \in S}

Range(s) == {s[k] : k \in 1..Len(s)}

\* Python's ordering of str: by code point, a proper prefix first
RECURSIVE LexLess(_, _)
LexLess(a, b) ==
    IF b = <<>> THEN FALSE
    ELSE IF a = <<>> THEN TRUE
    ELSE IF Head(a) # Head(b) THEN Head(a) < Head(b)
    ELSE LexLess(Tail(a), Tail(b))

(***************************************************************************)
(* common.py: fixed-width primitives over a byte stream.  A stream is the  *)
(* pair of the file's bytes and a position counted from 0.                 *)
(***************************************************************************)
write32(v) ==
    <<v % 256, (v \div 256) % 256, (v \div 65536) % 256, (v \div 16777216) % 256>>

write_string(s, n) == Take(s, n) \o Zeros(n - Len(s))

\* f.read(n) at position pos: the bytes available, fewer than n at end of file
ReadBytes(bytes, pos, n) ==
    IF pos < 0 \/ pos >= Len(bytes) THEN <<>> ELSE Take(Drop(bytes, pos), n)

\* a read of 4 bytes that comes back short raises
CanRead(bytes, pos, n) == pos >= 0 /\ pos + n <= Len(bytes)

read32(bytes, pos) ==
    LET b == ReadBytes(bytes, pos, 4)
    IN  b[1] + 256 * b[2] + 65536 * b[3]
          + 16777216 * (IF b[4] >= 128 THEN b[4] - 256 ELSE b[4])

\* the text before the first null byte
UpToNul(s) ==
    IF \A k \in 1..Len(s) : s[k] # Nul THEN s
    ELSE SubSeq(s, 1, (CHOOSE k \in 1..Len(s) : s[k] = Nul /\ \A m \in 1..(k - 1) : s[m] # Nul) - 1)

read_string(bytes, pos, n) == UpToNul(ReadBytes(bytes, pos, n))

\* f.write(data) at position pos: overwrite, extend, zero-fill a gap left by a seek
WriteAt(bytes, pos, data) ==
    LET gap == IF pos > Len(bytes) THEN Zeros(pos - Len(bytes)) ELSE <<>>
    IN  Take(bytes, pos) \o gap \o data \o Drop(bytes, pos + Len(data))

(***************************************************************************)
(* The input directory tree on disk.  A path is the sequence of directory  *)
(* names below the root (the root is <<>>); a file is [dir, name, data].   *)
(***************************************************************************)
ROOT == <<>>

DirCandidates == {<<AUDIO>>, <<LEVELS>>, <<AUDIO, SUB>>, <<HIDDEN_DIR>>, <<HIDDEN_DIR, SUB>>}

FileSlots ==
    { [dir |-> ROOT, name |-> A_BIN],
      [dir |-> <<AUDIO>>, name |-> A_BIN],
      [dir |-> <<AUDIO>>, name |-> B_BIN],
      [dir |-> <<AUDIO>>, name |-> HIDDEN_FILE],
      [dir |-> <<LEVELS>>, name |-> A_BIN],
      [dir |-> <<HIDDEN_DIR>>, name |-> A_BIN] }

Datas == {<<>>, <<1, 2, 3>>}

Parent(p) == SubSeq(p, 1, Len(p) - 1)

DirShapes ==
    {{ROOT} \cup D : D \in {E \in SUBSET DirCandidates : \A p \in E : Parent(p) \in E \cup {ROOT}}}

\* the contents chosen for a set of file slots: one file per slot
FileSets(slots) ==
    {{[dir |-> sl.dir, name |-> sl.name, data |-> d[sl]] : sl \in slots} : d \in [slots -> Datas]}

Trees ==
    UNION {{[dirs |-> ds, files |-> fs] :
              fs \in UNION {FileSets(sl) :
                  sl \in {x \in SUBSET {y \in FileSlots : y.dir \in ds} :
                            Cardinality(x) <= MaxFiles}}} : ds \in DirShapes}

Hidden(name) == name # <<>> /\ name[1] = Dot

NoHidden(t) ==
    /\ \A p \in t.dirs : \A k \in 1..Len(p) : ~Hidden(p[k])
    /\ \A fl \in t.files : ~Hidden(fl.name)

FileAt(t, path) == CHOOSE fl \in t.files : fl.dir = path.dir /\ fl.name = path.name

(***************************************************************************)
(* os.walk(base_input_dir), top-down: one yield (root, dirnames, filenames)*)
(* per directory visited, the listing order of a directory being whatever  *)
(* the filesystem returns.  The walk descends into the directories left in *)
(* dirnames by the loop body, which removes the hidden ones in place.      *)
(***************************************************************************)
SubdirNames(t, d) == {p[Len(p)] : p \in {q \in t.dirs : q # ROOT /\ Parent(q) = d}}

FileNamesIn(t, d) == {fl.name : fl \in {x \in t.files : x.dir = d}}

\* the names left as listed, the hidden ones too
KeepAll(names) == names

\* [d for d in dirnames if not d.startswith('.')], and the same test on files
RECURSIVE SelectVisible(_)
SelectVisible(names) ==
    IF names = <<>> THEN <<>>
    ELSE IF Hidden(Head(names)) THEN SelectVisible(Tail(names))
    ELSE <<Head(names)>> \o SelectVisible(Tail(names))

RECURSIVE WalkFrom(_, _)
RECURSIVE WalkInto(_, _, _)
WalkFrom(t, d) ==
    UNION {UNION {{<<[root |-> d, dirnames |-> dn, filenames |-> fn]>> \o rest :
                      rest \in WalkInto(t, d, SelectVisible(dn))} :
                  fn \in Perms(FileNamesIn(t, d))} :
           dn \in Perms(SubdirNames(t, d))}

WalkInto(t, d, dirnames) ==
    IF dirnames = <<>> THEN {<<>>}
    ELSE {a \o b : a \in WalkFrom(t, Append(d, Head(dirnames))),
                   b \in WalkInto(t, d, Tail(dirnames))}

os_walk(t) == WalkFrom(t, ROOT)

(***************************************************************************)
(* repack_pkr, step 1: collect files and directories.                      *)
(***************************************************************************)
RECURSIVE JoinSlash(_)
JoinSlash(p) ==
    IF p = <<>> THEN <<>>
    ELSE IF Len(p) = 1 THEN p[1]
    ELSE p[1] \o <<Slash>> \o JoinSlash(Tail(p))

\* relative_dir, then '/' for the root and a trailing slash for the others
pkr_dir_name(root) ==
    LET relative_dir == IF root = ROOT THEN <<Dot>> ELSE JoinSlash(root)
        name == IF relative_dir # <<Dot>> THEN relative_dir ELSE <<Slash>>
    IN  IF name # <<Slash>> /\ name[Len(name)] # Slash THEN name \o <<Slash>> ELSE name

\* os.path.join(pkr_dir_name, file_name): the directory name ends with a slash
file_key(dir_name, file_name) ==
    IF file_name # <<>> /\ file_name[1] = Slash THEN file_name
    ELSE IF dir_name = <<>> \/ dir_name[Len(dir_name)] = Slash THEN dir_name \o file_name
    ELSE dir_name \o <<Slash>> \o file_name

\* temp_dirs is a dict in insertion order: a sequence of [name, files]
HasKey(temp_dirs, name) == \E k \in 1..Len(temp_dirs) : temp_dirs[k].name = name

Extend(temp_dirs, name, filenames) ==
    [k \in 1..Len(temp_dirs) |->
        IF temp_dirs[k].name = name
        THEN [temp_dirs[k] EXCEPT !.files = @ \o filenames]
        ELSE temp_dirs[k]]

RECURSIVE FileInfos(_, _, _)
FileInfos(t, root, filenames) ==
    IF filenames = <<>> THEN <<>>
    ELSE LET full_path == [dir |-> root, name |-> Head(filenames)]
         IN  <<[dir |-> pkr_dir_name(root), name |-> Head(filenames),
                path |-> full_path, size |-> Len(FileAt(t, full_path).data)]>>
             \o FileInfos(t, root, Tail(filenames))

\* the loop body counting the hidden files too
WalkBodyCountsAll(t, c, y) ==
    LET name == pkr_dir_name(y.root)
        dirs1 == IF HasKey(c.temp_dirs, name) THEN c.temp_dirs
                 ELSE Append(c.temp_dirs, [name |-> name, files |-> <<>>])
        filenames == SelectVisible(y.filenames)
    IN  [temp_dirs |-> Extend(dirs1, name, filenames),
         all_files_info |-> c.all_files_info \o FileInfos(t, y.root, filenames),
         total_file_count |-> c.total_file_count + Len(y.filenames)]

\* the body of the os.walk loop for one yield
WalkBody(t, c, y) ==
    LET name == pkr_dir_name(y.root)
        dirs1 == IF HasKey(c.temp_dirs, name) THEN c.temp_dirs
                 ELSE Append(c.temp_dirs, [name |-> name, files |-> <<>>])
        filenames == SelectVisible(y.filenames)
    IN  [temp_dirs |-> Extend(dirs1, name, filenames),
         all_files_info |-> c.all_files_info \o FileInfos(t, y.root, filenames),
         total_file_count |-> c.total_file_count + Len(filenames)]

RECURSIVE WalkLoop(_, _, _)
WalkLoop(t, c, walk) ==
    IF walk = <<>> THEN c ELSE WalkLoop(t, WalkBody(t, c, Head(walk)), Tail(walk))

\* sorted(names): insertion sort by code point
RECURSIVE InsertText(_, _)
InsertText(s, x) ==
    IF s = <<>> THEN <<x>>
    ELSE IF LexLess(x, Head(s)) THEN <<x>> \o s
    ELSE <<Head(s)>> \o InsertText(Tail(s), x)

RECURSIVE SortText(_, _)
SortText(acc, s) == IF s = <<>> THEN acc ELSE SortText(InsertText(acc, Head(s)), Tail(s))

\* the names left in the order met
unsorted(s) == s

sorted(s) == SortText(<<>>, s)

\* all_files_info.sort(key=lambda x: (x[0], x[1]))
InfoLess(a, b) == LexLess(a.dir, b.dir) \/ (a.dir = b.dir /\ LexLess(a.name, b.name))

RECURSIVE InsertInfo(_, _)
InsertInfo(s, x) ==
    IF s = <<>> THEN <<x>>
    ELSE IF InfoLess(x, Head(s)) THEN <<x>> \o s
    ELSE <<Head(s)>> \o InsertInfo(Tail(s), x)

RECURSIVE SortInfo(_, _)
SortInfo(acc, s) == IF s = <<>> THEN acc ELSE SortInfo(InsertInfo(acc, Head(s)), Tail(s))

sort_files_info(s) == SortInfo(<<>>, s)

FilesOf(temp_dirs, name) == (CHOOSE e \in Range(temp_dirs) : e.name = name).files

Collect(t, walk) ==
    LET c == WalkLoop(t, [temp_dirs |-> <<>>, all_files_info |-> <<>>, total_file_count |-> 0],
                      walk)
        sorted_dir_names == sorted([k \in 1..Len(c.temp_dirs) |-> c.temp_dirs[k].name])
        dirs_to_pack == [k \in 1..Len(sorted_dir_names) |->
                            [name |-> sorted_dir_names[k],
                             filenames |-> sorted(FilesOf(c.temp_dirs, sorted_dir_names[k]))]]
    IN  [dirs_to_pack |-> dirs_to_pack,
         all_files_info |-> sort_files_info(c.all_files_info),
         total_file_count |-> c.total_file_count,
         num_directories |-> Len(dirs_to_pack)]

(***************************************************************************)
(* repack_pkr, step 2: layout and offsets.                                 *)
(***************************************************************************)
PKR_MAGIC == 844254032
PKR_VERSION == 1
\* 0xFFFFFFFE
MARKER == -2
NAME_LEN == 32
header_size == 16
dir_entry_size == 40
file_entry_size == 48

EmptyDict == [key \in {} |-> 0]

\* a loop that advances by the size of a directory record per file
RECURSIVE PlanDirsDirEntrySize(_, _)
PlanDirsDirEntrySize(dirs, acc) ==
    IF dirs = <<>> THEN acc
    ELSE LET file_table_size == Len(Head(dirs).filenames) * dir_entry_size
         IN  PlanDirsDirEntrySize(Tail(dirs),
                 [dir_offsets |-> (Head(dirs).name :> acc.current_file_table_offset)
                                     @@ acc.dir_offsets,
                  total_file_tables_size |-> acc.total_file_tables_size + file_table_size,
                  current_file_table_offset |-> acc.current_file_table_offset + file_table_size])

\* the loop that fills dir_offsets
RECURSIVE PlanDirs(_, _)
PlanDirs(dirs, acc) ==
    IF dirs = <<>> THEN acc
    ELSE LET file_table_size == Len(Head(dirs).filenames) * file_entry_size
         IN  PlanDirs(Tail(dirs),
                 [dir_offsets |-> (Head(dirs).name :> acc.current_file_table_offset)
                                     @@ acc.dir_offsets,
                  total_file_tables_size |-> acc.total_file_tables_size + file_table_size,
                  current_file_table_offset |-> acc.current_file_table_offset + file_table_size])

\* the loop over all_files_info: it advances current_data_offset and stores nothing
RECURSIVE PlanData(_, _)
PlanData(infos, acc) ==
    IF infos = <<>> THEN acc
    ELSE PlanData(Tail(infos),
             [file_data_offsets |-> acc.file_data_offsets,
              current_data_offset |-> acc.current_data_offset + Head(infos).size])

PlanLayout(c) ==
    LET dir_table_size == c.num_directories * dir_entry_size
        d == PlanDirs(c.dirs_to_pack,
                 [dir_offsets |-> EmptyDict, total_file_tables_size |-> 0,
                  current_file_table_offset |-> header_size + dir_table_size])
        p == PlanData(c.all_files_info,
                 [file_data_offsets |-> EmptyDict,
                  current_data_offset |-> header_size + dir_table_size
                                             + d.total_file_tables_size])
    IN  [dir_table_size |-> dir_table_size,
         total_file_tables_size |-> d.total_file_tables_size,
         dir_offsets |-> d.dir_offsets,
         file_data_offsets |-> p.file_data_offsets,
         current_data_offset |-> p.current_data_offset]

(***************************************************************************)
(* repack_pkr, step 3: writing.  A stream s is [f, pos, raised]: the bytes *)
(* of the output file, f.tell(), and whether an exception left the block.  *)
(***************************************************************************)
Put(s, data) == [s EXCEPT !.f = WriteAt(s.f, s.pos, data), !.pos = s.pos + Len(data)]

Seek(s, offset) == [s EXCEPT !.pos = offset]

WriteHeader(r, s) ==
    Put(Put(Put(Put(s, write32(PKR_MAGIC)), write32(PKR_VERSION)),
            write32(r.num_directories)), write32(r.total_file_count))

RECURSIVE WriteDirEntries(_, _, _)
WriteDirEntries(r, s, dirs) ==
    IF dirs = <<>> THEN s
    ELSE LET file_count == Len(Head(dirs).filenames)
             offset == r.dir_offsets[Head(dirs).name]
         IN  WriteDirEntries(r,
                 Put(Put(Put(s, write_string(Head(dirs).name, NAME_LEN)), write32(offset)),
                     write32(file_count)),
                 Tail(dirs))

WriteDirTable(r, s) == WriteDirEntries(r, s, r.dirs_to_pack)

HasFileInfo(r, key) ==
    \E k \in 1..Len(r.all_files_info) :
        file_key(r.all_files_info[k].dir, r.all_files_info[k].name) = key

FileInfo(r, key) ==
    r.all_files_info[CHOOSE k \in 1..Len(r.all_files_info) :
        /\ file_key(r.all_files_info[k].dir, r.all_files_info[k].name) = key
        /\ \A m \in 1..(k - 1) :
              file_key(r.all_files_info[m].dir, r.all_files_info[m].name) # key]

\* one FileEntry: the lookup of data_offset raises KeyError for a missing key
WriteFileEntry(r, s, dir_name, file_name) ==
    LET key == file_key(dir_name, file_name)
    IN  IF ~HasFileInfo(r, key) THEN s
        ELSE IF key \notin DOMAIN r.file_data_offsets THEN [s EXCEPT !.raised = TRUE]
        ELSE LET file_size == FileInfo(r, key).size
             IN  Put(Put(Put(Put(s, write_string(file_name, NAME_LEN)), write32(MARKER)),
                         write32(file_size)), write32(file_size))

RECURSIVE WriteFileEntries(_, _, _, _)
WriteFileEntries(r, s, dir_name, filenames) ==
    IF filenames = <<>> \/ s.raised THEN s
    ELSE WriteFileEntries(r, WriteFileEntry(r, s, dir_name, Head(filenames)),
                          dir_name, Tail(filenames))

\* the file table of one directory of dirs_to_pack
WriteFileTable(r, s, dir) ==
    WriteFileEntries(r, Seek(s, r.dir_offsets[dir.name]), dir.name, dir.filenames)

\* the payload of one file: its bytes, or zeros when it cannot be read
WriteFileData(r, s, t, noread, info) ==
    LET key == file_key(info.dir, info.name)
    IN  IF key \notin DOMAIN r.file_data_offsets THEN [s EXCEPT !.raised = TRUE]
        ELSE LET data_offset == r.file_data_offsets[key]
                 s1 == IF s.pos # data_offset THEN Seek(s, data_offset) ELSE s
             IN  IF info.path \in noread THEN Put(s1, Zeros(info.size))
                 ELSE Put(s1, FileAt(t, info.path).data)

RECURSIVE WriteAllData(_, _, _, _, _)
WriteAllData(r, s, t, noread, infos) ==
    IF infos = <<>> \/ s.raised THEN s
    ELSE WriteAllData(r, WriteFileData(r, s, t, noread, Head(infos)), t, noread, Tail(infos))

WritePayload(r, s, t, noread) ==
    WriteAllData(r, Seek(s, header_size + r.dir_table_size + r.total_file_tables_size),
                 t, noread, r.all_files_info)

(***************************************************************************)
(* extract_pkr.  The output tree is [dirs, files]: the set of directory    *)
(* paths and the set of files [dir, name, data] under output_base_dir.     *)
(***************************************************************************)
\* name.split('/') without its empty parts
RECURSIVE SplitParts(_, _)
SplitParts(name, part) ==
    IF name = <<>> THEN (IF part = <<>> THEN <<>> ELSE <<part>>)
    ELSE IF Head(name) = Slash
         THEN (IF part = <<>> THEN <<>> ELSE <<part>>) \o SplitParts(Tail(name), <<>>)
         ELSE SplitParts(Tail(name), Append(part, Head(name)))

path_parts(name) == SplitParts(name, <<>>)

Prefixes(path) == {SubSeq(path, 1, k) : k \in 0..Len(path)}

IsFile(o, path) ==
    path # ROOT /\ \E fl \in o.files : fl.dir = Parent(path) /\ fl.name = path[Len(path)]

\* os.makedirs(path, exist_ok=True) raises when a file is in the way
MakedirsRaises(o, path) == \E q \in Prefixes(path) : IsFile(o, q)

Makedirs(o, path) == [o EXCEPT !.dirs = @ \cup Prefixes(path)]

\* open(file_export_path, "wb") raises IOError on a directory or an empty name
OpenOutRaises(o, dir, file_name) == file_name = <<>> \/ Append(dir, file_name) \in o.dirs

WriteOut(o, dir, file_name, data) ==
    [o EXCEPT !.files = {fl \in @ : ~(fl.dir = dir /\ fl.name = file_name)}
                          \cup {[dir |-> dir, name |-> file_name, data |-> data]}]

\* a header check that gives up on an unexpected magic or version
ReadHeaderStrict(x, o, bytes) ==
    IF ~CanRead(bytes, 0, header_size) THEN [x |-> [x EXCEPT !.raised = TRUE], out |-> o]
    ELSE LET magic == read32(bytes, 0)
             version == read32(bytes, 4)
         IN  [x |-> [x EXCEPT !.magic = magic, !.version = version,
                              !.num_dir = read32(bytes, 8), !.num_file = read32(bytes, 12),
                              !.raised = magic # PKR_MAGIC \/ version # PKR_VERSION,
                              !.pos = header_size],
              out |-> o]

\* the four header fields, the magic/version check, makedirs of the output root
ReadHeader(x, o, bytes) ==
    IF ~CanRead(bytes, 0, header_size) THEN [x |-> [x EXCEPT !.raised = TRUE], out |-> o]
    ELSE LET magic == read32(bytes, 0)
             version == read32(bytes, 4)
         IN  [x |-> [x EXCEPT !.magic = magic, !.version = version,
                              !.num_dir = read32(bytes, 8), !.num_file = read32(bytes, 12),
                              !.warned = IF magic # PKR_MAGIC \/ version # PKR_VERSION
                                         THEN @ \cup {"header"} ELSE @,
                              !.pos = header_size],
              out |-> Makedirs(o, ROOT)]

\* the loop reading num_dir directory entries
RECURSIVE ReadDirEntries(_, _, _)
ReadDirEntries(x, bytes, n) ==
    IF n <= 0 \/ x.raised THEN x
    ELSE IF ~CanRead(bytes, x.pos, dir_entry_size) THEN [x EXCEPT !.raised = TRUE]
    ELSE ReadDirEntries(
             [x EXCEPT !.dir_entries = Append(@,
                           [name |-> read_string(bytes, x.pos, NAME_LEN),
                            offset |-> read32(bytes, x.pos + NAME_LEN),
                            count |-> read32(bytes, x.pos + NAME_LEN + 4)]),
                       !.pos = @ + dir_entry_size],
             bytes, n - 1)

\* the head of the directory loop: makedirs, known_files, seek to the file table
EnterDir(x, o, entry) ==
    LET path == path_parts(entry.name)
    IN  IF MakedirsRaises(o, path) THEN [x |-> [x EXCEPT !.raised = TRUE], out |-> o]
        ELSE [x |-> [x EXCEPT !.current_dir_export_path = path,
                              !.known_files = @ + entry.count,
                              !.cursor = x.pos,
                              !.pos = entry.offset],
              out |-> Makedirs(o, path)]

\* a file loop that reads size2 bytes of payload
ExtractFileSize2(x, o, bytes) ==
    IF ~CanRead(bytes, x.pos, file_entry_size) THEN [x |-> [x EXCEPT !.raised = TRUE], out |-> o]
    ELSE LET file_name == read_string(bytes, x.pos, NAME_LEN)
             data_offset == read32(bytes, x.pos + NAME_LEN + 4)
             size2 == read32(bytes, x.pos + NAME_LEN + 12)
             dir == x.current_dir_export_path
             failed == OpenOutRaises(o, dir, file_name)
         IN  [x |-> [x EXCEPT !.pos = x.pos + file_entry_size],
              out |-> IF failed THEN o
                      ELSE WriteOut(o, dir, file_name, ReadBytes(bytes, data_offset, size2))]

\* a file loop that leaves the stream where the payload read ended
ExtractFileNoSeekBack(x, o, bytes) ==
    IF ~CanRead(bytes, x.pos, file_entry_size) THEN [x |-> [x EXCEPT !.raised = TRUE], out |-> o]
    ELSE LET file_name == read_string(bytes, x.pos, NAME_LEN)
             data_offset == read32(bytes, x.pos + NAME_LEN + 4)
             size1 == read32(bytes, x.pos + NAME_LEN + 8)
             dir == x.current_dir_export_path
             failed == OpenOutRaises(o, dir, file_name)
             data == ReadBytes(bytes, data_offset, size1)
         IN  [x |-> [x EXCEPT !.pos = IF failed THEN data_offset ELSE data_offset + Len(data)],
              out |-> IF failed THEN o ELSE WriteOut(o, dir, file_name, data)]

\* one pass of the file loop: read the FileEntry, copy the payload, seek back
ExtractFile(x, o, bytes) ==
    IF ~CanRead(bytes, x.pos, file_entry_size) THEN [x |-> [x EXCEPT !.raised = TRUE], out |-> o]
    ELSE LET file_name == read_string(bytes, x.pos, NAME_LEN)
             unk1 == read32(bytes, x.pos + NAME_LEN)
             data_offset == read32(bytes, x.pos + NAME_LEN + 4)
             size1 == read32(bytes, x.pos + NAME_LEN + 8)
             size2 == read32(bytes, x.pos + NAME_LEN + 12)
             file_cursor == x.pos + file_entry_size
             dir == x.current_dir_export_path
             failed == OpenOutRaises(o, dir, file_name)
             data == ReadBytes(bytes, data_offset, size1)
             w == (IF unk1 # MARKER THEN {"marker"} ELSE {})
                    \cup (IF size1 # size2 THEN {"size"} ELSE {})
                    \cup (IF ~failed /\ Len(data) # size1 THEN {"short"} ELSE {})
                    \cup (IF failed THEN {"ioerror"} ELSE {})
         IN  [x |-> [x EXCEPT !.warned = @ \cup w, !.pos = file_cursor],
              out |-> IF failed THEN o ELSE WriteOut(o, dir, file_name, data)]

(***************************************************************************)
(* Archives handed to extract_pkr: the archive file format laid out for a  *)
(* listing (a sequence of directories [name, files], a file [name, data]), *)
(* with anomalies planted in its bytes.                                    *)
(***************************************************************************)
ROOT_NAME == <<Slash>>
AUDIO_NAME == AUDIO \o <<Slash>>
SUB_NAME == AUDIO \o <<Slash>> \o SUB \o <<Slash>>

Listings ==
    { <<[name |-> ROOT_NAME, files |-> <<>>], [name |-> AUDIO_NAME, files |-> <<>>]>>,
      <<[name |-> ROOT_NAME, files |-> <<>>],
        [name |-> AUDIO_NAME, files |-> <<[name |-> A_BIN, data |-> <<1, 2, 3>>],
                                          [name |-> B_BIN, data |-> <<>>]>>]>>,
      <<[name |-> ROOT_NAME, files |-> <<[name |-> A_BIN, data |-> <<1, 2, 3>>]>>],
        [name |-> AUDIO_NAME, files |-> <<[name |-> B_BIN, data |-> <<4, 5>>]>>],
        [name |-> SUB_NAME, files |-> <<>>]>> }

RECURSIVE CountFiles(_)
CountFiles(listing) ==
    IF listing = <<>> THEN 0 ELSE Len(Head(listing).files) + CountFiles(Tail(listing))

RECURSIVE SumSizes(_)
SumSizes(files) == IF files = <<>> THEN 0 ELSE Len(Head(files).data) + SumSizes(Tail(files))

RECURSIVE CountBytes(_)
CountBytes(listing) ==
    IF listing = <<>> THEN 0 ELSE SumSizes(Head(listing).files) + CountBytes(Tail(listing))

\* where the file table of directory k begins, and the payload of its file j
TableOffset(listing, k) ==
    header_size + dir_entry_size * Len(listing)
        + file_entry_size * CountFiles(SubSeq(listing, 1, k - 1))

PayloadBase(listing) ==
    header_size + dir_entry_size * Len(listing) + file_entry_size * CountFiles(listing)

PayloadOffset(listing, k, j) ==
    PayloadBase(listing) + CountBytes(SubSeq(listing, 1, k - 1))
        + SumSizes(SubSeq(listing[k].files, 1, j - 1))

RECURSIVE Flatten(_)
Flatten(ss) == IF ss = <<>> THEN <<>> ELSE Head(ss) \o Flatten(Tail(ss))

Encode(listing) ==
    LET dirEntry(k) == write_string(listing[k].name, NAME_LEN)
                          \o write32(TableOffset(listing, k))
                          \o write32(Len(listing[k].files))
        fileEntry(k, j) == write_string(listing[k].files[j].name, NAME_LEN)
                              \o write32(MARKER)
                              \o write32(PayloadOffset(listing, k, j))
                              \o write32(Len(listing[k].files[j].data))
                              \o write32(Len(listing[k].files[j].data))
        table(k) == Flatten([j \in 1..Len(listing[k].files) |-> fileEntry(k, j)])
        payload(k) == Flatten([j \in 1..Len(listing[k].files) |-> listing[k].files[j].data])
    IN  write32(PKR_MAGIC) \o write32(PKR_VERSION)
          \o write32(Len(listing)) \o write32(CountFiles(listing))
          \o Flatten([k \in 1..Len(listing) |-> dirEntry(k)])
          \o Flatten([k \in 1..Len(listing) |-> table(k)])
          \o Flatten([k \in 1..Len(listing) |-> payload(k)])

Anomalies ==
    {"magic", "version", "num_file", "marker", "size2", "short", "noname", "dir_offset"}

HasFiles(listing) == CountFiles(listing) > 0

FirstDir(listing) == CHOOSE k \in 1..Len(listing) :
    Len(listing[k].files) > 0 /\ \A m \in 1..(k - 1) : Len(listing[m].files) = 0

LastDir(listing) == CHOOSE k \in 1..Len(listing) :
    Len(listing[k].files) > 0 /\ \A m \in (k + 1)..Len(listing) : Len(listing[m].files) = 0

\* one anomaly planted in the bytes of the archive of a listing
Plant(bytes, listing, a) ==
    LET first == TableOffset(listing, FirstDir(listing))
        last == TableOffset(listing, LastDir(listing))
                   + file_entry_size * (Len(listing[LastDir(listing)].files) - 1)
    IN  CASE a = "magic" -> WriteAt(bytes, 0, write32(PKR_MAGIC + 1))
          [] a = "version" -> WriteAt(bytes, 4, write32(PKR_VERSION + 1))
          [] a = "num_file" -> WriteAt(bytes, 12, write32(CountFiles(listing) + 1))
          [] ~HasFiles(listing) -> bytes
          [] a = "marker" -> WriteAt(bytes, first + NAME_LEN, write32(0))
          [] a = "size2" ->
                WriteAt(bytes, first + NAME_LEN + 12,
                        write32(read32(bytes, first + NAME_LEN + 8) + 1))
          [] a = "short" ->
                WriteAt(bytes, last + NAME_LEN + 8,
                        write32(read32(bytes, last + NAME_LEN + 8) + 2)
                          \o write32(read32(bytes, last + NAME_LEN + 8) + 2))
          [] a = "noname" -> WriteAt(bytes, first, <<Nul>>)
          [] a = "dir_offset" ->
                WriteAt(bytes, header_size + dir_entry_size * (FirstDir(listing) - 1) + NAME_LEN,
                        write32(Len(bytes) + 8))

RECURSIVE PlantAll(_, _, _)
PlantAll(bytes, listing, as) ==
    IF as = {} THEN bytes
    ELSE LET a == CHOOSE e \in as : TRUE
         IN  PlantAll(Plant(bytes, listing, a), listing, as \ {a})

Givens ==
    {[listing |-> l, anomalies |-> as] :
        l \in Listings, as \in {e \in SUBSET Anomalies : Cardinality(e) <= MaxAnomalies}}

ArchiveOf(g) == PlantAll(Encode(g.listing), g.listing, g.anomalies)

\* the tree a listing describes
ListedDirs(listing) == UNION {Prefixes(path_parts(listing[k].name)) : k \in 1..Len(listing)}

ListedFiles(listing) ==
    UNION {{[dir |-> path_parts(listing[k].name), name |-> listing[k].files[j].name,
             data |-> listing[k].files[j].data] : j \in 1..Len(listing[k].files)} :
           k \in 1..Len(listing)}

(***************************************************************************)
(* The state.  A run repacks the tree on disk into the archive file and    *)
(* extracts that file, or extracts a given archive file.                   *)
(***************************************************************************)
VARIABLES
    pc,          \* the statement the program is at
    tree,        \* the input directory tree of repack_pkr
    unreadable,  \* paths of the tree that cannot be opened for reading
    given,       \* the listing and anomalies of a given archive file
    pkr,         \* the archive file: [exists, bytes]
    r,           \* the locals of repack_pkr, its return value included
    x,           \* the locals of extract_pkr, its return value included
    out          \* the output tree of extract_pkr

\* the window of pkr_volume_adjuster_gui.py and its worker threads
VARIABLES
    pkr_file_path,   \* the input path chosen, "" when none
    is_processing,   \* self.is_processing
    process_button,  \* the state of the process button: "disabled" or "normal"
    status_text,     \* the status line: the message last shown
    progress_bar,    \* "hidden" or "running"
    dialog,          \* the message box shown last, "none" before the first
    workers,         \* the processing_worker threads alive, and the finished one
                     \* whose queue the window still holds: [pc, result_queue,
                     \* idx, total_files, puts]; self.result_queue is the queue
                     \* of the last
    after_calls      \* the pending root.after(100, check_processing_queue) calls

codec_vars == <<pc, tree, unreadable, given, pkr, r, x, out>>

gui_vars ==
    <<pkr_file_path, is_processing, process_button, status_text, progress_bar, dialog,
      workers, after_calls>>

vars == <<codec_vars, gui_vars>>

\* the window after __init__
Constructed ==
    /\ pkr_file_path = ""
    /\ is_processing = FALSE
    /\ process_button = "disabled"
    /\ status_text = "Idle"
    /\ progress_bar = "hidden"
    /\ dialog = "none"
    /\ workers = <<>>
    /\ after_calls = 0

r0 ==
    [dirs_to_pack |-> <<>>, all_files_info |-> <<>>, total_file_count |-> 0,
     num_directories |-> 0, dir_table_size |-> 0, total_file_tables_size |-> 0,
     dir_offsets |-> EmptyDict, file_data_offsets |-> EmptyDict, current_data_offset |-> 0,
     pos |-> 0, k |-> 0, ret |-> "none"]

x0 ==
    [magic |-> 0, version |-> 0, num_dir |-> 0, num_file |-> 0, known_files |-> 0,
     dir_entries |-> <<>>, i |-> 0, j |-> 0, current_dir_export_path |-> ROOT,
     cursor |-> 0, pos |-> 0, warned |-> {}, raised |-> FALSE, ret |-> "none"]

NoFile == [exists |-> FALSE, bytes |-> <<>>]
EmptyTree == [dirs |-> {}, files |-> {}]
NoGiven == [listing |-> <<>>, anomalies |-> {}]

\* a machine state m is [pc, pkr, r, x, out]
Stream(m) == [f |-> m.pkr.bytes, pos |-> m.r.pos, raised |-> FALSE]

\* the effect of a writing step: the file, f.tell(), and where control goes
Written(m, s, next) ==
    IF s.raised
    THEN [m EXCEPT !.pkr.bytes = s.f, !.r.pos = s.pos, !.r.ret = "False", !.pc = "x_open"]
    ELSE [m EXCEPT !.pkr.bytes = s.f, !.r.pos = s.pos, !.pc = next]

R_Collect(m, t, walk) ==
    LET c == Collect(t, walk)
    IN  [m EXCEPT !.r.dirs_to_pack = c.dirs_to_pack, !.r.all_files_info = c.all_files_info,
                  !.r.total_file_count = c.total_file_count,
                  !.r.num_directories = c.num_directories,
                  !.pc = "r_plan"]

R_Plan(m) ==
    LET p == PlanLayout(m.r)
    IN  [m EXCEPT !.r.dir_table_size = p.dir_table_size,
                  !.r.total_file_tables_size = p.total_file_tables_size,
                  !.r.dir_offsets = p.dir_offsets,
                  !.r.file_data_offsets = p.file_data_offsets,
                  !.r.current_data_offset = p.current_data_offset,
                  !.pc = "r_open"]

\* open(output_pkr_file, "wb"): an empty file, or IOError and return False
R_Open(m, ok) ==
    IF ok THEN [m EXCEPT !.pkr = [exists |-> TRUE, bytes |-> <<>>], !.r.pos = 0,
                         !.pc = "r_header"]
    ELSE [m EXCEPT !.r.ret = "False", !.pc = "x_open"]

R_Header(m) == Written(m, WriteHeader(m.r, Stream(m)), "r_dirtable")

R_DirTable(m) ==
    [Written(m, WriteDirTable(m.r, Stream(m)), "r_filetable") EXCEPT !.r.k = 1]

R_FileTable(m) ==
    LET s == WriteFileTable(m.r, Stream(m), m.r.dirs_to_pack[m.r.k])
        next == IF m.r.k = m.r.num_directories THEN "r_payload" ELSE "r_filetable"
    IN  [Written(m, s, next) EXCEPT !.r.k = @ + 1]

R_Payload(m, t, noread) ==
    LET w == Written(m, WritePayload(m.r, Stream(m), t, noread), "x_open")
    IN  IF w.r.ret = "none" THEN [w EXCEPT !.r.ret = "True"] ELSE w

\* an exception leaves extract_pkr through its handlers, which return False
Extracted(m, e, next) ==
    IF e.x.raised
    THEN [m EXCEPT !.x = [e.x EXCEPT !.ret = "False"], !.out = e.out, !.pc = "x_done"]
    ELSE [m EXCEPT !.x = e.x, !.out = e.out, !.pc = next]

\* after a directory: the next one, or the end of the loop
AfterDir(m) ==
    IF m.x.i >= Len(m.x.dir_entries) THEN [m EXCEPT !.pc = "x_return"]
    ELSE [m EXCEPT !.x.i = @ + 1, !.x.j = 0, !.pc = "x_dir"]

X_Open(m) ==
    IF m.pkr.exists THEN [m EXCEPT !.x = x0, !.pc = "x_header"]
    ELSE [m EXCEPT !.x = [x0 EXCEPT !.ret = "False"], !.pc = "x_done"]

X_Header(m) == Extracted(m, ReadHeader(m.x, m.out, m.pkr.bytes), "x_dirtable")

X_DirTable(m) ==
    LET e == Extracted(m, [x |-> ReadDirEntries(m.x, m.pkr.bytes, m.x.num_dir), out |-> m.out],
                       "x_dir")
    IN  IF e.pc = "x_dir" THEN AfterDir(e) ELSE e

X_Dir(m) ==
    LET entry == m.x.dir_entries[m.x.i]
        e == Extracted(m, EnterDir(m.x, m.out, entry), "x_file")
    IN  IF e.pc = "x_file" /\ entry.count <= 0 THEN AfterDir(e) ELSE e

X_File(m) ==
    LET e == Extracted(m, ExtractFile(m.x, m.out, m.pkr.bytes), "x_file")
    IN  IF e.pc # "x_file" THEN e
        ELSE IF m.x.j + 1 >= m.x.dir_entries[m.x.i].count THEN AfterDir(e)
        ELSE [e EXCEPT !.x.j = @ + 1]

X_Return(m) == [m EXCEPT !.x.ret = "True", !.pc = "x_done"]

(***************************************************************************)
(* Initial states and actions.                                             *)
(***************************************************************************)
Paths(t) == {[dir |-> fl.dir, name |-> fl.name] : fl \in t.files}

InitRepack ==
    /\ pc = "r_collect"
    /\ tree \in Trees
    /\ unreadable \in {{}} \cup {{p} : p \in Paths(tree)}
    /\ given = NoGiven
    /\ pkr = NoFile

InitExtract ==
    /\ pc = "x_open"
    /\ tree = EmptyTree
    /\ unreadable = {}
    /\ given \in Givens
    /\ pkr = [exists |-> TRUE, bytes |-> ArchiveOf(given)]

Init ==
    /\ InitRepack \/ InitExtract
    /\ r = r0
    /\ x = x0
    /\ out = EmptyTree
    /\ Constructed

Cur == [pc |-> pc, pkr |-> pkr, r |-> r, x |-> x, out |-> out]

Becomes(m) ==
    /\ pc' = m.pc
    /\ pkr' = m.pkr
    /\ r' = m.r
    /\ x' = m.x
    /\ out' = m.out
    /\ UNCHANGED <<tree, unreadable, given>>
    /\ UNCHANGED gui_vars

RepackCollect == pc = "r_collect" /\ \E walk \in os_walk(tree) : Becomes(R_Collect(Cur, tree, walk))

RepackPlan == pc = "r_plan" /\ Becomes(R_Plan(Cur))

RepackOpen == pc = "r_open" /\ \E ok \in BOOLEAN : Becomes(R_Open(Cur, ok))

\* a source file is rewritten by another program after os.path.getsize has
\* recorded its size and before repack_pkr reads it: its length is no longer
\* the planned one
SourceFileChanges ==
    /\ pc = "r_open"
    /\ given = NoGiven
    /\ \E fl \in tree.files : \E data \in Datas :
          /\ Len(data) # Len(fl.data)
          /\ tree' = [tree EXCEPT !.files = (@ \ {fl}) \cup {[fl EXCEPT !.data = data]}]
    /\ UNCHANGED <<pc, unreadable, given, pkr, r, x, out>>
    /\ UNCHANGED gui_vars

RepackHeader == pc = "r_header" /\ Becomes(R_Header(Cur))

RepackDirTable == pc = "r_dirtable" /\ Becomes(R_DirTable(Cur))

RepackFileTable == pc = "r_filetable" /\ Becomes(R_FileTable(Cur))

RepackPayload == pc = "r_payload" /\ Becomes(R_Payload(Cur, tree, unreadable))

ExtractOpen == pc = "x_open" /\ Becomes(X_Open(Cur))

ExtractHeader == pc = "x_header" /\ Becomes(X_Header(Cur))

ExtractDirTable == pc = "x_dirtable" /\ Becomes(X_DirTable(Cur))

ExtractDir == pc = "x_dir" /\ Becomes(X_Dir(Cur))

ExtractFileEntry == pc = "x_file" /\ Becomes(X_File(Cur))

ExtractReturn == pc = "x_return" /\ Becomes(X_Return(Cur))

Next ==
    \/ RepackCollect
    \/ RepackPlan
    \/ RepackOpen
    \/ SourceFileChanges
    \/ RepackHeader
    \/ RepackDirTable
    \/ RepackFileTable
    \/ RepackPayload
    \/ ExtractOpen
    \/ ExtractHeader
    \/ ExtractDirTable
    \/ ExtractDir
    \/ ExtractFileEntry
    \/ ExtractReturn

Spec == Init /\ [][Next]_vars

(***************************************************************************)
(* Whole runs, as the composition of the steps above.                      *)
(***************************************************************************)
RepackStep(m, t, noread, walk, ok) ==
    CASE m.pc = "r_collect" -> R_Collect(m, t, walk)
      [] m.pc = "r_plan" -> R_Plan(m)
      [] m.pc = "r_open" -> R_Open(m, ok)
      [] m.pc = "r_header" -> R_Header(m)
      [] m.pc = "r_dirtable" -> R_DirTable(m)
      [] m.pc = "r_filetable" -> R_FileTable(m)
      [] m.pc = "r_payload" -> R_Payload(m, t, noread)

RECURSIVE RepackFrom(_, _, _, _, _)
RepackFrom(m, t, noread, walk, ok) ==
    IF m.pc = "x_open" THEN m
    ELSE RepackFrom(RepackStep(m, t, noread, walk, ok), t, noread, walk, ok)

\* repack_pkr on tree t, the walk and the outcome of opening the output given
RunRepack(t, noread, walk, ok) ==
    RepackFrom([pc |-> "r_collect", pkr |-> NoFile, r |-> r0, x |-> x0, out |-> EmptyTree],
               t, noread, walk, ok)

ExtractStep(m) ==
    CASE m.pc = "x_open" -> X_Open(m)
      [] m.pc = "x_header" -> X_Header(m)
      [] m.pc = "x_dirtable" -> X_DirTable(m)
      [] m.pc = "x_dir" -> X_Dir(m)
      [] m.pc = "x_file" -> X_File(m)
      [] m.pc = "x_return" -> X_Return(m)

RECURSIVE ExtractFrom(_)
ExtractFrom(m) == IF m.pc = "x_done" THEN m ELSE ExtractFrom(ExtractStep(m))

\* extract_pkr on an archive file holding bytes, into an empty output directory
RunExtract(bytes) ==
    ExtractFrom([pc |-> "x_open", pkr |-> [exists |-> TRUE, bytes |-> bytes], r |-> r0,
                 x |-> x0, out |-> EmptyTree])

(***************************************************************************)
(* What the claims speak of.                                               *)
(***************************************************************************)
\* repack_pkr has returned, having opened its output file
Repacked == given = NoGiven /\ r.ret # "none" /\ pkr.exists

\* the files repack_pkr packs: not hidden and not below a hidden directory
Visible(p) == \A k \in 1..Len(p) : ~Hidden(p[k])

PackedDirs(t) == {p \in t.dirs : Visible(p)}

PackedFiles(t) == {fl \in t.files : Visible(fl.dir) /\ ~Hidden(fl.name)}

\* the end of all file tables, and the planned sizes of the files before the k-th
TablesEnd == header_size + r.dir_table_size + r.total_file_tables_size

RECURSIVE SizesBefore(_, _)
SizesBefore(infos, k) == IF k <= 1 THEN 0 ELSE infos[k - 1].size + SizesBefore(infos, k - 1)

InfoKey(k) == file_key(r.all_files_info[k].dir, r.all_files_info[k].name)

InfoIndex(dir_name, file_name) ==
    CHOOSE k \in 1..Len(r.all_files_info) : InfoKey(k) = file_key(dir_name, file_name)

\* C1: round trip: for a tree without hidden entries whose files are readable,
\* repack_pkr into a writable archive and extract_pkr of that archive both
\* return True and the output tree has the tree's directories, file names and
\* file contents
C1_RoundTrip ==
    (pc = "x_done" /\ given = NoGiven /\ pkr.exists /\ NoHidden(tree) /\ unreadable = {})
        => /\ r.ret = "True"
           /\ x.ret = "True"
           /\ out.dirs = tree.dirs
           /\ out.files = tree.files

\* C2: with every file readable and the output file opened for writing,
\* repack_pkr returns True and the archive is complete up to the end of the
\* planned payload region
C2_RepackSucceeds ==
    (Repacked /\ unreadable = {})
        => r.ret = "True" /\ Len(pkr.bytes) = r.current_data_offset

\* C3: every file has a planned payload offset, it is the end of all file
\* tables plus the planned sizes of the files sorted before it, and the payload
\* ranges of two files do not overlap
C3_OffsetConsistency ==
    (given = NoGiven /\ pc \notin {"r_collect", "r_plan"})
        => /\ \A k \in 1..Len(r.all_files_info) :
                /\ InfoKey(k) \in DOMAIN r.file_data_offsets
                /\ r.file_data_offsets[InfoKey(k)] >= TablesEnd
                /\ r.file_data_offsets[InfoKey(k)]
                      = TablesEnd + SizesBefore(r.all_files_info, k)
           /\ \A k, m \in 1..Len(r.all_files_info) :
                k < m => r.file_data_offsets[InfoKey(k)] + r.all_files_info[k].size
                            <= r.file_data_offsets[InfoKey(m)]

\* C4: the archive holds, for the j-th file of every directory, at
\* file_table_offset + 48*(j-1) counted from the first, the 48-byte record
\* name:32, marker 0xFFFFFFFE, payload offset, size, size
C4_FileEntryRecords ==
    Repacked
        => \A d \in 1..Len(r.dirs_to_pack) : \A j \in 1..Len(r.dirs_to_pack[d].filenames) :
              LET dir == r.dirs_to_pack[d]
                  k == InfoIndex(dir.name, dir.filenames[j])
                  size == r.all_files_info[k].size
              IN  ReadBytes(pkr.bytes, r.dir_offsets[dir.name] + file_entry_size * (j - 1),
                            file_entry_size)
                    = write_string(dir.filenames[j], NAME_LEN) \o write32(MARKER)
                        \o write32(TablesEnd + SizesBefore(r.all_files_info, k))
                        \o write32(size) \o write32(size)

\* the directory table has been written by repack_pkr
DirTableWritten ==
    /\ given = NoGiven
    /\ pkr.exists
    /\ pc \notin {"r_collect", "r_plan", "r_open", "r_header", "r_dirtable"}

DirEntryAt(bytes, k) ==
    LET at == header_size + dir_entry_size * (k - 1)
    IN  [name |-> read_string(bytes, at, NAME_LEN), offset |-> read32(bytes, at + NAME_LEN),
         count |-> read32(bytes, at + NAME_LEN + 4)]

FileEntryAt(bytes, at) ==
    [name |-> read_string(bytes, at, NAME_LEN), unk1 |-> read32(bytes, at + NAME_LEN),
     data_offset |-> read32(bytes, at + NAME_LEN + 4), size1 |-> read32(bytes, at + NAME_LEN + 8),
     size2 |-> read32(bytes, at + NAME_LEN + 12)]

RECURSIVE SumCounts(_, _)
SumCounts(bytes, n) == IF n <= 0 THEN 0 ELSE DirEntryAt(bytes, n).count + SumCounts(bytes, n - 1)

\* the tree of the concrete scenario: audio/ with a.bin (01 02 03) and b.bin (empty)
ScenarioTree ==
    [dirs |-> {ROOT, <<AUDIO>>},
     files |-> {[dir |-> <<AUDIO>>, name |-> A_BIN, data |-> <<1, 2, 3>>],
                [dir |-> <<AUDIO>>, name |-> B_BIN, data |-> <<>>]}]

\* C5: in the archive written by repack_pkr, directory_count is the number of
\* DirectoryEntry records written (one per packed directory) and file_count is
\* the sum of the records' file counts and the number of non-hidden files
\* collected; the scenario tree gives directory_count = 2 and file_count = 2
C5_HeaderCounts ==
    DirTableWritten
        => LET directory_count == read32(pkr.bytes, 8)
               file_count == read32(pkr.bytes, 12)
           IN  /\ Len(pkr.bytes) >= header_size + dir_entry_size * directory_count
               /\ (pc = "r_filetable" /\ r.k = 1)
                     => Len(pkr.bytes) = header_size + dir_entry_size * directory_count
               /\ directory_count = Cardinality(PackedDirs(tree))
               /\ {DirEntryAt(pkr.bytes, k).name : k \in 1..directory_count}
                     = {pkr_dir_name(p) : p \in PackedDirs(tree)}
               /\ file_count = SumCounts(pkr.bytes, directory_count)
               /\ file_count = Cardinality(PackedFiles(tree))
               /\ tree = ScenarioTree => directory_count = 2 /\ file_count = 2

C5_Witness ==
    /\ DirTableWritten
    /\ tree = ScenarioTree
    /\ read32(pkr.bytes, 8) = 2
    /\ read32(pkr.bytes, 12) = 2

\* C6: the archive file and the return value of repack_pkr are the same for
\* every order in which os.walk may list the directories and files of the tree
C6_LayoutDeterminism ==
    (pc = "x_open" /\ given = NoGiven /\ r.ret # "none")
        => \A walk \in os_walk(tree) :
              LET m == RunRepack(tree, unreadable, walk, pkr.exists)
              IN  m.pkr = pkr /\ m.r.ret = r.ret

C6_Witness ==
    /\ pc = "x_open"
    /\ Repacked
    /\ Cardinality(os_walk(tree)) >= 4
    /\ Len(pkr.bytes) > header_size

Lenient == {"magic", "version", "num_file", "marker", "size2", "short"}

\* C7: an archive with an unexpected magic or version is extracted with a
\* warning and otherwise exactly as the same archive with the expected magic
\* and version: same return value, same directories, same files; when its
\* tables are valid extract_pkr returns True and extracts all that is listed
C7_LenientHeader ==
    (pc = "x_done" /\ given # NoGiven /\ given.anomalies \cap {"magic", "version"} # {})
        => LET fixed == WriteAt(WriteAt(pkr.bytes, 0, write32(PKR_MAGIC)), 4,
                                write32(PKR_VERSION))
               e == RunExtract(fixed)
           IN  /\ "header" \in x.warned
               /\ "header" \notin e.x.warned
               /\ x.warned \ {"header"} = e.x.warned
               /\ x.ret = e.x.ret
               /\ out = e.out
               /\ given.anomalies \subseteq {"magic", "version", "num_file"}
                     => /\ x.ret = "True"
                        /\ out.dirs = ListedDirs(given.listing)
                        /\ out.files = ListedFiles(given.listing)

C7_Witness ==
    /\ pc = "x_done"
    /\ given.anomalies = {"magic", "version"}
    /\ read32(pkr.bytes, 0) # PKR_MAGIC
    /\ read32(pkr.bytes, 4) # PKR_VERSION
    /\ x.ret = "True"
    /\ Cardinality(out.files) = 2

\* the file the FileEntry of file j of directory k of the listing asks for
AskedFile(bytes, listing, k, j) ==
    LET e == FileEntryAt(bytes, TableOffset(listing, k) + file_entry_size * (j - 1))
    IN  [dir |-> path_parts(listing[k].name), name |-> listing[k].files[j].name,
         data |-> ReadBytes(bytes, e.data_offset, e.size1)]

\* C8: on an unexpected marker, on size1 # size2 and on a payload read shorter
\* than size1, extract_pkr goes on, returns True, creates every directory and
\* writes for every file the bytes read at payload_offset with length size1
C8_LenientEntries ==
    (/\ pc = "x_done"
     /\ given # NoGiven
     /\ given.anomalies \subseteq Lenient
     /\ given.anomalies \cap {"marker", "size2", "short"} # {}
     /\ HasFiles(given.listing))
        => /\ x.ret = "True"
           /\ out.dirs = ListedDirs(given.listing)
           /\ out.files =
                 UNION {{AskedFile(pkr.bytes, given.listing, k, j) :
                            j \in 1..Len(given.listing[k].files)} :
                        k \in 1..Len(given.listing)}
           /\ "marker" \in given.anomalies => "marker" \in x.warned
           /\ "size2" \in given.anomalies => "size" \in x.warned
           /\ "short" \in given.anomalies => "short" \in x.warned

C8_Witness ==
    /\ pc = "x_done"
    /\ given.anomalies = {"size2", "short"}
    /\ x.warned = {"size", "short"}
    /\ x.ret = "True"
    /\ \E fl \in out.files : fl.data = <<4, 5>>
    /\ \E fl \in out.files : fl.data = <<1, 2, 3>>

\* C9: when the file-table offset of a directory entry lies beyond the end of
\* the archive, extract_pkr returns a result, and every other directory of the
\* archive is created and every file of the other directories is extracted
C9_SkipOnlyBadEntry ==
    (/\ pc = "x_done"
     /\ given # NoGiven
     /\ "dir_offset" \in given.anomalies
     /\ given.anomalies \subseteq Lenient \cup {"dir_offset"}
     /\ HasFiles(given.listing))
        => /\ x.ret \in {"True", "False"}
           /\ ListedDirs(given.listing) \subseteq out.dirs
           /\ \A k \in 1..Len(given.listing) :
                 k # FirstDir(given.listing)
                    => \A j \in 1..Len(given.listing[k].files) :
                          [dir |-> path_parts(given.listing[k].name),
                           name |-> given.listing[k].files[j].name,
                           data |-> given.listing[k].files[j].data] \in out.files

\* C10: when a packed file cannot be read, repack_pkr returns True and the
\* archive holds at every file's planned payload offset the file's bytes, or
\* planned-size zero bytes for the unreadable file
C10_UnreadableZeroFilled ==
    (/\ pc = "x_open"
     /\ Repacked
     /\ \E k \in 1..Len(r.all_files_info) : r.all_files_info[k].path \in unreadable)
        => /\ r.ret = "True"
           /\ \A k \in 1..Len(r.all_files_info) :
                 LET info == r.all_files_info[k]
                 IN  ReadBytes(pkr.bytes, TablesEnd + SizesBefore(r.all_files_info, k), info.size)
                       = IF info.path \in unreadable THEN Zeros(info.size)
                         ELSE FileAt(tree, info.path).data

\* the tree without its hidden files and without its hidden directories and
\* all that is below them
Strip(t) == [dirs |-> PackedDirs(t), files |-> PackedFiles(t)]

\* C11: repack_pkr leaves hidden entries out: a hidden directory, or one
\* below it, has no DirectoryEntry and every other directory has exactly one,
\* the one of a directory without files included; the header counts and the
\* records' file counts count no hidden file and no file below a hidden
\* directory; no FileEntry names a hidden file; the plan holds no such file; and
\* the archive is the one written for the tree with the hidden entries removed
C11_HiddenExcluded ==
    DirTableWritten
        => LET directory_count == read32(pkr.bytes, 8)
               file_count == read32(pkr.bytes, 12)
               records == 1..directory_count
           IN  /\ \A p \in tree.dirs :
                     Cardinality({k \in records : DirEntryAt(pkr.bytes, k).name = pkr_dir_name(p)})
                         = IF Visible(p) THEN 1 ELSE 0
               /\ \A p \in PackedDirs(tree) : \A k \in records :
                     DirEntryAt(pkr.bytes, k).name = pkr_dir_name(p)
                         => DirEntryAt(pkr.bytes, k).count
                                = Cardinality({fl \in PackedFiles(tree) : fl.dir = p})
               /\ directory_count = Cardinality(PackedDirs(tree))
               /\ file_count = Cardinality(PackedFiles(tree))
               /\ \A k \in records : \A j \in 0..(DirEntryAt(pkr.bytes, k).count - 1) :
                     LET at == DirEntryAt(pkr.bytes, k).offset + file_entry_size * j
                     IN  CanRead(pkr.bytes, at, file_entry_size)
                             => ~Hidden(FileEntryAt(pkr.bytes, at).name)
               /\ {r.all_files_info[k].path : k \in 1..Len(r.all_files_info)}
                     = Paths(Strip(tree))
               /\ \A k \in 1..Len(r.dirs_to_pack) : \A j \in 1..Len(r.dirs_to_pack[k].filenames) :
                     ~Hidden(r.dirs_to_pack[k].filenames[j])
               /\ pc = "x_open"
                     => \A walk \in os_walk(Strip(tree)) :
                           LET m == RunRepack(Strip(tree), unreadable, walk, TRUE)
                           IN  m.pkr = pkr /\ m.r.ret = r.ret

C11_Witness ==
    /\ pc = "x_open"
    /\ Repacked
    /\ {<<LEVELS>>, <<HIDDEN_DIR, SUB>>} \subseteq tree.dirs
    /\ {[dir |-> <<AUDIO>>, name |-> HIDDEN_FILE], [dir |-> <<HIDDEN_DIR>>, name |-> A_BIN]}
          = Paths(tree)
    /\ read32(pkr.bytes, 8) = 3
    /\ read32(pkr.bytes, 12) = 0
    /\ Len(pkr.bytes) = header_size + 3 * dir_entry_size

\* C12: each pass of the file loop of extract_pkr that does not raise begins
\* at file_table_offset + 48 * j, j counting the entries of the directory from
\* 0, and leaves the stream right after the FileEntry record it read, whatever
\* the payload offset and size, on a short payload read and on an I/O error of
\* the output file alike
C12_StreamPosition ==
    [][(pc = "x_file" /\ ~x'.raised)
          => /\ x.pos = x.dir_entries[x.i].offset + file_entry_size * x.j
             /\ x'.pos = x.pos + file_entry_size
             /\ x'.pos = x.dir_entries[x.i].offset + file_entry_size * (x.j + 1)]_vars

C12_Witness ==
    /\ pc = "x_done"
    /\ x.ret = "True"
    /\ {"ioerror", "short"} \subseteq x.warned
    /\ x.j = 1
    /\ x.pos = x.dir_entries[x.i].offset + file_entry_size * 2

\* the layout is planned: repack_pkr is past its step 2
Planned == given = NoGiven /\ pc \notin {"r_collect", "r_plan"}

RECURSIVE FilesBefore(_, _)
FilesBefore(dirs, k) ==
    IF k <= 1 THEN 0 ELSE Len(dirs[k - 1].filenames) + FilesBefore(dirs, k - 1)

\* 16 + 40 * D + 48 * (the file counts of the directories before the k-th)
TableOffsetOf(dirs, k) ==
    header_size + dir_entry_size * Len(dirs) + file_entry_size * FilesBefore(dirs, k)

\* C13: the directories are sorted by canonical name; the file-table offset
\* planned for the k-th, and written in its DirectoryEntry, is 16 + 40 * D
\* + 48 * (the file counts of the directories before it); so every offset is
\* at or past the end of the directory table and the file tables of two
\* directories do not overlap; the offsets stand, with these values, when the
\* output file is about to be opened and nothing is written yet
C13_LayoutPlan ==
    /\ Planned
          => /\ \A k \in 1..Len(r.dirs_to_pack) :
                   /\ r.dirs_to_pack[k].name \in DOMAIN r.dir_offsets
                   /\ r.dir_offsets[r.dirs_to_pack[k].name] = TableOffsetOf(r.dirs_to_pack, k)
             /\ \A k \in 2..Len(r.dirs_to_pack) :
                   LexLess(r.dirs_to_pack[k - 1].name, r.dirs_to_pack[k].name)
             /\ pc = "r_open" => pkr = NoFile
    /\ DirTableWritten
          => LET D == read32(pkr.bytes, 8)
                 entry(k) == DirEntryAt(pkr.bytes, k)
             IN  /\ D = Len(r.dirs_to_pack)
                 /\ \A k \in 1..D :
                       /\ entry(k).name = r.dirs_to_pack[k].name
                       /\ entry(k).offset = r.dir_offsets[entry(k).name]
                       /\ entry(k).offset
                             = header_size + dir_entry_size * D
                                 + file_entry_size * SumCounts(pkr.bytes, k - 1)
                       /\ entry(k).offset >= header_size + dir_entry_size * D
                 /\ \A k \in 1..D : \A n \in 1..D :
                       k < n => entry(k).offset + file_entry_size * entry(k).count
                                    <= entry(n).offset

C13_Witness ==
    /\ DirTableWritten
    /\ read32(pkr.bytes, 8) = 3
    /\ DirEntryAt(pkr.bytes, 1).offset = 136
    /\ DirEntryAt(pkr.bytes, 2).offset = 184
    /\ DirEntryAt(pkr.bytes, 3).offset = 232
    /\ DirEntryAt(pkr.bytes, 3).count = 0

\* the planned payload offset of the k-th file and the file as it is on disk
PlannedOffset(k) == TablesEnd + SizesBefore(r.all_files_info, k)

ActualData(k) == FileAt(tree, r.all_files_info[k].path).data

\* a file of the plan no longer has its planned length
LengthChanged == \E k \in 1..Len(r.all_files_info) : Len(ActualData(k)) # r.all_files_info[k].size

\* a later file's payload covers the byte at position at
Overwritten(k, at) ==
    \E n \in (k + 1)..Len(r.all_files_info) :
        PlannedOffset(n) <= at /\ at < PlannedOffset(n) + Len(ActualData(n))

\* C14: when a file's length at write time is not its planned size, the
\* archive has, at every file's planned payload offset, the bytes the file has
\* on disk (where a later file's payload did not replace them), and the
\* FileEntry records have the planned offsets and sizes
C14_NoReflow ==
    (pc = "x_open" /\ Repacked /\ unreadable = {} /\ LengthChanged)
        => /\ \A k \in 1..Len(r.all_files_info) : \A b \in 1..Len(ActualData(k)) :
                 LET at == PlannedOffset(k) + b - 1
                 IN  ~Overwritten(k, at)
                        => Len(pkr.bytes) > at /\ pkr.bytes[at + 1] = ActualData(k)[b]
           /\ \A n \in 1..Len(r.dirs_to_pack) : \A j \in 1..Len(r.dirs_to_pack[n].filenames) :
                 LET dir == r.dirs_to_pack[n]
                     at == TableOffsetOf(r.dirs_to_pack, n) + file_entry_size * (j - 1)
                     k == InfoIndex(dir.name, dir.filenames[j])
                 IN  /\ CanRead(pkr.bytes, at, file_entry_size)
                     /\ FileEntryAt(pkr.bytes, at).data_offset = PlannedOffset(k)
                     /\ FileEntryAt(pkr.bytes, at).size1 = r.all_files_info[k].size
                     /\ FileEntryAt(pkr.bytes, at).size2 = r.all_files_info[k].size

(***************************************************************************)
(* pkr_volume_adjuster_gui.py.  A worker is one run of processing_worker:  *)
(* pc is the statement it is at, result_queue the queue it was handed, and *)
(* puts the is_complete flags of the messages it has put, in order.  One   *)
(* step of a worker runs up to and including its next put.                 *)
(***************************************************************************)
MaxWavs == 2

NewWorker == [pc |-> "begin", result_queue |-> <<>>, idx |-> 0, total_files |-> 0, puts |-> <<>>]

\* result_queue.put((message, is_complete, is_error))
put(w, message, is_complete, is_error) ==
    [w EXCEPT !.result_queue = Append(@, [message |-> message, is_complete |-> is_complete,
                                          is_error |-> is_error]),
              !.puts = Append(@, is_complete)]

\* an except clause that reports the error without ending the run
RaiseNotComplete(w) == [put(w, "An error occurred", FALSE, TRUE) EXCEPT !.pc = "done"]

\* raise ... caught by except Exception, which puts the error and returns
Raise(w) == [put(w, "An error occurred", TRUE, TRUE) EXCEPT !.pc = "done"]

\* worker n takes a step to w
Runs(n, w) ==
    /\ workers' = [workers EXCEPT ![n] = w]
    /\ UNCHANGED <<pkr_file_path, is_processing, process_button, status_text, progress_bar,
                   dialog, after_calls>>
    /\ UNCHANGED codec_vars

At(n, where) == n \in DOMAIN workers /\ workers[n].pc = where

\* os.path.exists(self.output_dir)
WorkerBegin ==
    \E n \in DOMAIN workers : \E exists \in BOOLEAN :
        /\ At(n, "begin")
        /\ Runs(n, IF exists
                   THEN [put(workers[n], "Removing existing", FALSE, FALSE) EXCEPT !.pc = "rmtree"]
                   ELSE [put(workers[n], "Extracting PKR", FALSE, FALSE) EXCEPT !.pc = "extract"])

\* shutil.rmtree(self.output_dir) of the old directory
WorkerRemove ==
    \E n \in DOMAIN workers : \E removed \in BOOLEAN :
        /\ At(n, "rmtree")
        /\ Runs(n, IF removed
                   THEN [put(workers[n], "Extracting PKR", FALSE, FALSE) EXCEPT !.pc = "extract"]
                   ELSE [put(workers[n], "Warning: Failed to remove", FALSE, TRUE)
                            EXCEPT !.pc = "extracting"])

WorkerExtracting ==
    \E n \in DOMAIN workers :
        /\ At(n, "extracting")
        /\ Runs(n, [put(workers[n], "Extracting PKR", FALSE, FALSE) EXCEPT !.pc = "extract"])

\* extract_pkr(pkr_path, self.output_dir), then os.path.isdir(audio_dir)
WorkerExtract ==
    \E n \in DOMAIN workers : \E extracted \in BOOLEAN : \E isdir \in BOOLEAN :
        /\ At(n, "extract")
        /\ Runs(n, IF ~extracted THEN Raise(workers[n])
                   ELSE IF isdir
                   THEN [put(workers[n], "Adjusting WAV volumes", FALSE, FALSE)
                            EXCEPT !.pc = "listdir_audio"]
                   ELSE [put(workers[n], "No 'audio' directory found", FALSE, FALSE)
                            EXCEPT !.pc = "listdir_output"])

\* os.listdir(audio_dir), and the first pass of the loop up to its put
WorkerListWavs ==
    \E n \in DOMAIN workers : \E listed \in BOOLEAN : \E total_files \in 0..MaxWavs :
        /\ At(n, "listdir_audio")
        /\ Runs(n, IF ~listed THEN Raise(workers[n])
                   ELSE IF total_files = 0
                   THEN [put(workers[n], "No .wav files found", FALSE, FALSE)
                            EXCEPT !.pc = "repacking"]
                   ELSE [put(workers[n], "Processing WAV", FALSE, FALSE)
                            EXCEPT !.pc = "adjust", !.idx = 0, !.total_files = total_files])

\* adjust_volume(input_wav, output_wav, factor), which returns True or False,
\* then the next pass of the loop, or the put that follows the loop
WorkerAdjust ==
    \E n \in DOMAIN workers :
        /\ At(n, "adjust")
        /\ Runs(n, IF workers[n].idx + 1 < workers[n].total_files
                   THEN [put(workers[n], "Processing WAV", FALSE, FALSE) EXCEPT !.idx = @ + 1]
                   ELSE [put(workers[n], "Repacking files", FALSE, FALSE) EXCEPT !.pc = "repack"])

\* os.listdir(self.output_dir) in the debug print
WorkerListOutput ==
    \E n \in DOMAIN workers : \E listed \in BOOLEAN :
        /\ At(n, "listdir_output")
        /\ Runs(n, IF ~listed THEN Raise(workers[n])
                   ELSE [put(workers[n], "Repacking files", FALSE, FALSE) EXCEPT !.pc = "repack"])

WorkerRepacking ==
    \E n \in DOMAIN workers :
        /\ At(n, "repacking")
        /\ Runs(n, [put(workers[n], "Repacking files", FALSE, FALSE) EXCEPT !.pc = "repack"])

\* repack_pkr(self.output_dir, repacked_file_path)
WorkerRepack ==
    \E n \in DOMAIN workers : \E repacked \in BOOLEAN :
        /\ At(n, "repack")
        /\ Runs(n, IF repacked
                   THEN [put(workers[n], "Cleaning up", FALSE, FALSE) EXCEPT !.pc = "cleanup"]
                   ELSE Raise(workers[n]))

\* shutil.rmtree(self.output_dir) of the temporary directory
WorkerCleanup ==
    \E n \in DOMAIN workers : \E removed \in BOOLEAN :
        /\ At(n, "cleanup")
        /\ Runs(n, IF removed
                   THEN [put(workers[n], "Processing complete", TRUE, FALSE) EXCEPT !.pc = "done"]
                   ELSE [put(workers[n], "Processing complete, cleanup failed", TRUE, TRUE)
                            EXCEPT !.pc = "done"])

WorkerNext ==
    \/ WorkerBegin
    \/ WorkerRemove
    \/ WorkerExtracting
    \/ WorkerExtract
    \/ WorkerListWavs
    \/ WorkerAdjust
    \/ WorkerListOutput
    \/ WorkerRepacking
    \/ WorkerRepack
    \/ WorkerCleanup

(***************************************************************************)
(* The handlers of the window, each run on the Tk main loop.               *)
(***************************************************************************)
Alive(w) == w.pc # "done"

\* filedialog.askopenfilename returns a path, or "" when cancelled
browse_pkr_file ==
    /\ \E file_path \in {"", "ALL.PKR"} :
          IF file_path # ""
          THEN pkr_file_path' = file_path /\ process_button' = "normal"
          ELSE UNCHANGED <<pkr_file_path, process_button>>
    /\ UNCHANGED <<is_processing, status_text, progress_bar, dialog, workers, after_calls>>
    /\ UNCHANGED codec_vars

\* a message box and return
Refuse(box) ==
    /\ dialog' = box
    /\ UNCHANGED <<pkr_file_path, is_processing, process_button, status_text, progress_bar,
                   workers, after_calls>>

\* the overwrite confirmation answered no
Cancel ==
    /\ dialog' = "Overwrite Confirmation"
    /\ status_text' = "Overwrite cancelled by user."
    /\ UNCHANGED <<pkr_file_path, is_processing, process_button, progress_bar, workers,
                   after_calls>>

\* the new queue, the new thread started, the first poll scheduled; a finished
\* worker goes with the queue that is replaced
Launch(asked) ==
    /\ is_processing' = TRUE
    /\ process_button' = "disabled"
    /\ status_text' = "Processing..."
    /\ progress_bar' = "running"
    /\ workers' = Append(SelectSeq(workers, Alive), NewWorker)
    /\ after_calls' = after_calls + 1
    /\ dialog' = IF asked THEN "Overwrite Confirmation" ELSE dialog
    /\ UNCHANGED pkr_file_path

\* a handler without the test of is_processing
start_processing_unguarded ==
    /\ process_button = "normal"
    /\ \E exists \in BOOLEAN : \E proceed \in BOOLEAN :
          IF pkr_file_path = "" THEN Refuse("Error")
          ELSE IF exists /\ ~proceed THEN Cancel
          ELSE Launch(exists)
    /\ UNCHANGED codec_vars

\* the command of the process button, which a disabled button does not invoke
start_processing ==
    /\ process_button = "normal"
    /\ \E exists \in BOOLEAN : \E proceed \in BOOLEAN :
          IF pkr_file_path = "" THEN Refuse("Error")
          ELSE IF is_processing THEN Refuse("Busy")
          ELSE IF exists /\ ~proceed THEN Cancel
          ELSE Launch(exists)
    /\ UNCHANGED codec_vars

\* one root.after callback: self.result_queue.get_nowait() and what follows
check_processing_queue ==
    /\ after_calls > 0
    /\ workers # <<>>
    /\ LET n == Len(workers)
           queue == workers[n].result_queue
       IN  IF queue # <<>>
           THEN /\ workers' = [workers EXCEPT ![n].result_queue = Tail(queue)]
                /\ status_text' = Head(queue).message
                /\ IF Head(queue).is_complete
                   THEN /\ is_processing' = FALSE
                        /\ process_button' = "normal"
                        /\ progress_bar' = "hidden"
                        /\ dialog' = IF Head(queue).is_error THEN "Error" ELSE "Success"
                        /\ after_calls' = after_calls - 1
                   ELSE UNCHANGED <<is_processing, process_button, progress_bar, dialog,
                                    after_calls>>
           ELSE /\ after_calls' = IF is_processing THEN after_calls ELSE after_calls - 1
                /\ UNCHANGED <<is_processing, process_button, status_text, progress_bar,
                               dialog, workers>>
    /\ UNCHANGED pkr_file_path
    /\ UNCHANGED codec_vars

InitGui ==
    /\ Constructed
    /\ pc = "gui"
    /\ tree = EmptyTree
    /\ unreadable = {}
    /\ given = NoGiven
    /\ pkr = NoFile
    /\ r = r0
    /\ x = x0
    /\ out = EmptyTree

NextGui ==
    \/ browse_pkr_file
    \/ start_processing
    \/ check_processing_queue
    \/ WorkerNext

\* the thread scheduler lets a worker run, and the main loop runs the callbacks
SpecGui ==
    InitGui /\ [][NextGui]_vars /\ WF_vars(WorkerNext) /\ WF_vars(check_processing_queue)

LiveWorkers == Cardinality({n \in DOMAIN workers : Alive(workers[n])})

\* a step that starts a worker thread
StartsWorker ==
    \E n \in DOMAIN workers' :
        /\ workers'[n].pc = "begin"
        /\ workers'[n].puts = <<>>
        /\ Len(workers') > Len(SelectSeq(workers, Alive))

\* a step of check_processing_queue that takes a message with is_complete = True
DequeuesComplete ==
    /\ after_calls > 0
    /\ workers # <<>>
    /\ workers[Len(workers)].result_queue # <<>>
    /\ Head(workers[Len(workers)].result_queue).is_complete
    /\ workers' = [workers EXCEPT ![Len(workers)].result_queue = Tail(@)]

\* C15: at most one worker thread is alive, and only while is_processing is
\* True; a worker is started only by a step from is_processing = False to
\* True; is_processing goes back to False only when check_processing_queue
\* takes a message with is_complete = True; start_processing while
\* is_processing is True starts no worker and changes nothing of the window
\* (it shows the Busy box)
C15_SingleWorker ==
    /\ [](LiveWorkers <= 1 /\ (LiveWorkers = 1 => is_processing))
    /\ [][/\ StartsWorker => ~is_processing /\ is_processing' /\ LiveWorkers = 0
          /\ (is_processing /\ ~is_processing') => DequeuesComplete
          /\ (is_processing /\ start_processing)
                => /\ dialog' = "Busy"
                   /\ UNCHANGED <<pkr_file_path, is_processing, process_button, status_text,
                                  progress_bar, workers, after_calls>>]_vars

C15_Witness ==
    /\ is_processing
    /\ dialog = "Busy"
    /\ process_button = "normal"
    /\ LiveWorkers = 1
    /\ Len(workers) = 1

Completes(w) == Cardinality({k \in DOMAIN w.puts : w.puts[k]})

\* C16: a worker that has returned has put exactly one message with
\* is_complete = True, its last, and one that has not returned has put none;
\* the step that takes this message sets is_processing to False, enables the
\* process button and leaves no callback scheduled; and, the worker and the
\* callbacks being scheduled fairly, processing always leads to that step
C16_CompletionDelivered ==
    /\ [](\A n \in DOMAIN workers :
             /\ Completes(workers[n]) = IF Alive(workers[n]) THEN 0 ELSE 1
             /\ ~Alive(workers[n]) => workers[n].puts[Len(workers[n].puts)])
    /\ [][DequeuesComplete
             => ~is_processing' /\ process_button' = "normal" /\ after_calls' = 0]_vars
    /\ is_processing ~> (~is_processing /\ process_button = "normal" /\ after_calls = 0)

C16_Witness ==
    /\ ~is_processing
    /\ process_button = "normal"
    /\ after_calls = 0
    /\ Len(workers) = 1
    /\ ~Alive(workers[1])
    /\ workers[1].result_queue = <<>>
    /\ Len(workers[1].puts) = 9
    /\ status_text = "Processing complete, cleanup failed"
    /\ dialog = "Error"

====
